---- MODULE Spec2Model ----
(***************************************************************************)
(* The progressive-draw animation state machine and the view transform of  *)
(* src/src/components/DrawingCanvas.jsx, in its two versions:              *)
(*   "DrawingCanvas"          the forwardRef component (lines 720-1113),   *)
(*                            mounted by src/src/App.jsx;                  *)
(*   "EnhancedDrawingCanvas"  the default export (lines 220-580), mounted  *)
(*                            by the App of src/unnamed/part_001, 303-401. *)
(* Numbers: progress is kept in 1/Scale of an index, alpha in              *)
(* 1/fadeDuration, zoom and offset as exact fractions <<n, d>>.            *)
(***************************************************************************)
EXTENDS Integers, Sequences, FiniteSets, TLC

VARIABLES
    variant,                  \* which component is mounted
    now,                      \* the timestamp of the current frame
    progressRef,              \* progressRef.current, in 1/Scale of an index
    statusRef,                \* statusRef.current
    completionTimestampRef,   \* completionTimestampRef.current
    lastTimeRef,              \* lastTimeRef.current
    spriteAlphaRef,           \* spriteAlphaRef.current, in 1/fadeDuration
    pathAlphaRef,             \* pathAlphaRef.current, in 1/fadeDuration
    runningRef,               \* runningRef.current
    animationRef,             \* animationRef.current: the last frame-callback handle
    rafQueue,                 \* the frame callbacks requested and not yet run or cancelled
    points,                   \* the memoized PointSequence, by its length
    speed,                    \* the speed prop (DrawingCanvas) or state (Enhanced)
    zoom,                     \* zoom, a fraction
    offset,                   \* offset, a pair of fractions
    isDragging,               \* isDragging.current
    lastMousePos,             \* lastMousePos.current
    showGridState,            \* Enhanced: showGridState
    showLabelsState,          \* Enhanced: showLabelsState
    last,                     \* history: the operation that led here
    plot,                     \* one run of EquationPlotter: its inputs and what it returned
    segmenting,               \* one run of pathSegments: its inputs and what it returned
    pookalam                  \* one finalPookalam(params): its inputs and the calls made of it

canvasVars == <<variant, now, progressRef, statusRef, completionTimestampRef,
                lastTimeRef, spriteAlphaRef, pathAlphaRef, runningRef, animationRef,
                rafQueue, points, speed, zoom, offset, isDragging, lastMousePos,
                showGridState, showLabelsState, last>>

generationVars == <<plot, segmenting, pookalam>>

vars == <<canvasVars, generationVars>>

viewVars == <<zoom, offset, isDragging, lastMousePos>>

-----------------------------------------------------------------------------
(* Bounds of the model *)

MaxTime == 5500
MaxDen == 13
MaxOffset == 2
LongSequence == 60

FrameDeltas == {500, 1000, 2000}
PointCounts == {0, 1, LongSequence}
Speeds == {1, 2}
MousePoints == {<<400, 300>>, <<445, 210>>}
SliderZooms == {<<1, 1>>, <<11, 10>>}
LateRead == 1000
Lags == {0, LateRead}

(* Program constants *)

holdDuration == 1500
fadeDuration == 2000
width == 800
height == 600
scale == 45
Scale == 1000
NoTimestamp == -1
NoFrame == 0
Variants == {"DrawingCanvas", "EnhancedDrawingCanvas"}

-----------------------------------------------------------------------------
(* Exact arithmetic on fractions <<n, d>>, d > 0, in lowest terms *)

Abs(n) == IF n < 0 THEN -n ELSE n

RECURSIVE GCD(_, _)
GCD(a, b) == IF b = 0 THEN a ELSE GCD(b, a % b)

Norm(n, d) ==
    LET s == IF d < 0 THEN -1 ELSE 1
        g == GCD(Abs(n), Abs(d))
    IN  <<(s * n) \div g, (s * d) \div g>>

RInt(n) == <<n, 1>>
RAdd(a, b) == Norm(a[1] * b[2] + b[1] * a[2], a[2] * b[2])
RSub(a, b) == Norm(a[1] * b[2] - b[1] * a[2], a[2] * b[2])
RMul(a, b) == Norm(a[1] * b[1], a[2] * b[2])
RDiv(a, b) == Norm(a[1] * b[2], a[2] * b[1])
RLt(a, b) == a[1] * b[2] < b[1] * a[2]
RMin(a, b) == IF RLt(b, a) THEN b ELSE a
RMax(a, b) == IF RLt(a, b) THEN b ELSE a

-----------------------------------------------------------------------------
(* The refs of the component, as one record the handlers transform.  The   *)
(* field drawn says whether drawScene ran in the current handler.           *)

AlphaOne == fadeDuration

Refs ==
    [progress |-> progressRef, status |-> statusRef,
     completion |-> completionTimestampRef, lastTime |-> lastTimeRef,
     spriteAlpha |-> spriteAlphaRef, pathAlpha |-> pathAlphaRef,
     running |-> runningRef, animation |-> animationRef, queue |-> rafQueue,
     drawn |-> FALSE]

SetRefs(r) ==
    /\ progressRef' = r.progress
    /\ statusRef' = r.status
    /\ completionTimestampRef' = r.completion
    /\ lastTimeRef' = r.lastTime
    /\ spriteAlphaRef' = r.spriteAlpha
    /\ pathAlphaRef' = r.pathAlpha
    /\ runningRef' = r.running
    /\ animationRef' = r.animation
    /\ rafQueue' = r.queue

(* requestAnimationFrame(animate): the callback, with the points and speed *)
(* its closure captured, joins the queue under a handle not in use.         *)
FreeHandle(q) ==
    CHOOSE h \in 1..(Cardinality(q) + 1) :
        /\ \A cb \in q : cb.id # h
        /\ \A k \in 1..(h - 1) : \E cb \in q : cb.id = k

RequestAnimationFrame(r, pts, spd) ==
    LET h == FreeHandle(r.queue)
    IN  [r EXCEPT !.queue = @ \cup {[id |-> h, pts |-> pts, speed |-> spd]},
                  !.animation = h]

CancelAnimationFrame(r, h) ==
    [r EXCEPT !.queue = {cb \in @ : cb.id # h}]

(* if (animationRef.current) cancelAnimationFrame(animationRef.current) *)
CancelPending(r) ==
    IF r.animation # NoFrame THEN CancelAnimationFrame(r, r.animation) ELSE r

(* A reset that leaves the alphas where the fade put them *)
HandleResetKeepingAlpha(r) ==
    [r EXCEPT !.progress = 0,
              !.status = "drawing",
              !.completion = NoTimestamp,
              !.running = TRUE]

(* A reset that forgets to clear the phase-entry timestamp *)
HandleResetKeepingTimestamp(r) ==
    [r EXCEPT !.progress = 0,
              !.spriteAlpha = AlphaOne,
              !.pathAlpha = AlphaOne,
              !.status = "drawing",
              !.running = TRUE]

HandleReset(r) ==
    [r EXCEPT !.progress = 0,
              !.spriteAlpha = AlphaOne,
              !.pathAlpha = AlphaOne,
              !.status = "drawing",
              !.completion = NoTimestamp,
              !.running = TRUE]

(* (speed * 50 * deltaTime) / 1000, in 1/Scale of an index *)
ProgressSpeed(spd, deltaTime) == (spd * 50 * deltaTime * Scale) \div 1000

(* points.length - 1, in 1/Scale of an index *)
LastIndex(pts) == (pts.len - 1) * Scale

(* timestamp - completionTimestampRef.current; null converts to 0 *)
Elapsed(timestamp, completion) ==
    timestamp - (IF completion = NoTimestamp THEN 0 ELSE completion)

(* Math.max(0, 1 - elapsedFade / fadeDuration), in 1/fadeDuration *)
CurrentAlpha(elapsedFade) ==
    IF fadeDuration - elapsedFade < 0 THEN 0 ELSE fadeDuration - elapsedFade

(* A drawing tick that enters holding without clamping progress *)
DrawingTickUnclamped(r, pts, spd, timestamp, deltaTime) ==
    LET p == r.progress + ProgressSpeed(spd, deltaTime)
    IN  IF p >= LastIndex(pts)
        THEN [r EXCEPT !.progress = p,
                       !.status = "holding",
                       !.completion = timestamp]
        ELSE [r EXCEPT !.progress = p]

DrawingTick(r, pts, spd, timestamp, deltaTime) ==
    LET p == r.progress + ProgressSpeed(spd, deltaTime)
    IN  IF p >= LastIndex(pts)
        THEN [r EXCEPT !.progress = LastIndex(pts),
                       !.status = "holding",
                       !.completion = timestamp]
        ELSE [r EXCEPT !.progress = p]

(* A hold that never ends *)
HoldingTickForever(r, timestamp) == r

(* A hold that ends without recording when the fade began *)
HoldingTickKeepingTimestamp(r, timestamp) ==
    IF Elapsed(timestamp, r.completion) > holdDuration
    THEN [r EXCEPT !.status = "fading"]
    ELSE r

(* A hold that ends as soon as holdDuration has elapsed *)
HoldingTickAtHoldDuration(r, timestamp) ==
    IF Elapsed(timestamp, r.completion) >= holdDuration
    THEN [r EXCEPT !.status = "fading", !.completion = timestamp]
    ELSE r

HoldingTick(r, timestamp) ==
    IF Elapsed(timestamp, r.completion) > holdDuration
    THEN [r EXCEPT !.status = "fading", !.completion = timestamp]
    ELSE r

(* A fade that stops at alpha 0 and never resets *)
FadingTickWithoutReset(r, timestamp) ==
    LET currentAlpha == CurrentAlpha(Elapsed(timestamp, r.completion))
    IN  [r EXCEPT !.spriteAlpha = currentAlpha, !.pathAlpha = currentAlpha]

FadingTick(r, timestamp) ==
    LET currentAlpha == CurrentAlpha(Elapsed(timestamp, r.completion))
        r1 == [r EXCEPT !.spriteAlpha = currentAlpha, !.pathAlpha = currentAlpha]
    IN  IF currentAlpha <= 0 THEN HandleReset(r1) ELSE r1

(* The body guarded by runningRef.current && points.length > 0 *)
Advance(r, pts, spd, timestamp, deltaTime) ==
    IF r.status = "drawing" THEN DrawingTick(r, pts, spd, timestamp, deltaTime)
    ELSE IF r.status = "holding" THEN HoldingTick(r, timestamp)
    ELSE IF r.status = "fading" THEN FadingTick(r, timestamp)
    ELSE r

DrawScene(r) == [r EXCEPT !.drawn = TRUE]

(* The indices of pts that Sprite reads to place and turn the marker;    *)
(* progress is in 1/Scale of an index.                                   *)
SpriteReads(len, progress) ==
    IF len = 0 THEN {}
    ELSE LET lastIndex == len - 1
             bounded == IF progress < lastIndex * Scale THEN progress
                        ELSE lastIndex * Scale
             safeProgress == IF bounded > 0 THEN bounded ELSE 0
             currentIndex == safeProgress \div Scale
             following == IF currentIndex + 1 < lastIndex THEN currentIndex + 1
                          ELSE lastIndex
             preceding == IF currentIndex - 1 > 0 THEN currentIndex - 1 ELSE 0
             position == IF currentIndex >= lastIndex
                         THEN {currentIndex, lastIndex}
                         ELSE {currentIndex, following}
             heading == IF currentIndex > 0 /\ currentIndex < len - 1
                        THEN {preceding, following}
                        ELSE IF len > 1 THEN {0, 1} ELSE {}
         IN  position \cup heading

(* An animate that advances whatever the length of the sequence *)
AnimateWithoutLengthGuard(r, cb, timestamp) ==
    LET deltaTime == timestamp - r.lastTime
        r0 == [r EXCEPT !.lastTime = timestamp, !.queue = @ \ {cb}]
        r1 == IF r0.running
              THEN Advance(r0, cb.pts, cb.speed, timestamp, deltaTime)
              ELSE r0
    IN  RequestAnimationFrame(DrawScene(r1), cb.pts, cb.speed)

(* An animate that does not look at runningRef *)
AnimateUngated(r, cb, timestamp) ==
    LET deltaTime == timestamp - r.lastTime
        r0 == [r EXCEPT !.lastTime = timestamp, !.queue = @ \ {cb}]
        r1 == IF cb.pts.len > 0
              THEN Advance(r0, cb.pts, cb.speed, timestamp, deltaTime)
              ELSE r0
    IN  RequestAnimationFrame(DrawScene(r1), cb.pts, cb.speed)

(* An animate that keeps the previous-frame timestamp while paused *)
AnimateKeepingLastTimeWhilePaused(r, cb, timestamp) ==
    LET deltaTime == timestamp - r.lastTime
        r0 == [r EXCEPT !.lastTime = IF r.running THEN timestamp ELSE @,
                        !.queue = @ \ {cb}]
        r1 == IF r0.running /\ cb.pts.len > 0
              THEN Advance(r0, cb.pts, cb.speed, timestamp, deltaTime)
              ELSE r0
    IN  RequestAnimationFrame(DrawScene(r1), cb.pts, cb.speed)

(* animate(timestamp), run for the queued callback cb *)
Animate(r, cb, timestamp) ==
    LET deltaTime == timestamp - r.lastTime
        r0 == [r EXCEPT !.lastTime = timestamp, !.queue = @ \ {cb}]
        r1 == IF r0.running /\ cb.pts.len > 0
              THEN Advance(r0, cb.pts, cb.speed, timestamp, deltaTime)
              ELSE r0
    IN  RequestAnimationFrame(DrawScene(r1), cb.pts, cb.speed)

(* performance.now(), read lag after the current frame began: a handler    *)
(* or a render may run long after the frame's timestamp was taken.          *)
PerformanceNow(lag) == now + lag

(* A startAnimation that requests a frame without cancelling the pending one *)
StartAnimationWithoutCancel(v, r, pts, spd, t) ==
    LET r1 == IF v = "EnhancedDrawingCanvas" THEN [r EXCEPT !.running = TRUE] ELSE r
    IN  RequestAnimationFrame([r1 EXCEPT !.lastTime = t], pts, spd)

(* startAnimation(); the Enhanced version also sets runningRef *)
StartAnimation(v, r, pts, spd, t) ==
    LET r0 == CancelPending(r)
        r1 == IF v = "EnhancedDrawingCanvas" THEN [r0 EXCEPT !.running = TRUE] ELSE r0
    IN  RequestAnimationFrame([r1 EXCEPT !.lastTime = t], pts, spd)

(* The effects of DrawingCanvas without the one on [points, handleReset] *)
DrawingCanvasEffectsWithoutReset(r, pts, spd, t, pointsChanged, startChanged) ==
    IF startChanged
    THEN StartAnimation("DrawingCanvas", CancelPending(r), pts, spd, t)
    ELSE r

(* DrawingCanvas: the effect on [startAnimation] (its cleanup, then        *)
(* startAnimation), then the effect on [points, handleReset].               *)
DrawingCanvasEffects(r, pts, spd, t, pointsChanged, startChanged) ==
    LET r1 == IF startChanged
              THEN StartAnimation("DrawingCanvas", CancelPending(r), pts, spd, t)
              ELSE r
    IN  IF pointsChanged THEN HandleReset(r1) ELSE r1

(* Enhanced: the effect on [startAnimation], then the effect on            *)
(* [points, startAnimation], which resets the refs and starts again.        *)
EnhancedEffects(r, pts, spd, t, pointsChanged, startChanged) ==
    LET r1 == IF startChanged
              THEN StartAnimation("EnhancedDrawingCanvas", CancelPending(r), pts, spd, t)
              ELSE r
        r2 == [r1 EXCEPT !.progress = 0,
                         !.spriteAlpha = AlphaOne,
                         !.pathAlpha = AlphaOne,
                         !.status = "drawing",
                         !.completion = NoTimestamp]
    IN  IF pointsChanged \/ startChanged
        THEN StartAnimation("EnhancedDrawingCanvas", r2, pts, spd, t)
        ELSE r1

(* The effects of one render.  startAnimation depends on points, so a new  *)
(* PointSequence is a new startAnimation.                                   *)
Effects(v, r, pts, spd, t, pointsChanged, startChanged) ==
    IF v = "DrawingCanvas"
    THEN DrawingCanvasEffects(r, pts, spd, t, pointsChanged, pointsChanged \/ startChanged)
    ELSE EnhancedEffects(r, pts, spd, t, pointsChanged, pointsChanged \/ startChanged)

(* EquationPlotter run again by useMemo: a new array, of some length *)
Regenerated(n) == [len |-> n]

-----------------------------------------------------------------------------
(* The view transform *)

HalfWidth == Norm(width, 2)
HalfHeight == Norm(height, 2)

(* toWorldCoords(cx, cy) under zoom z and offset off *)
ToWorldCoords(cx, cy, z, off) ==
    <<RSub(RDiv(RSub(RInt(cx), HalfWidth), RMul(RInt(scale), z)), off[1]),
      RSub(RDiv(RSub(HalfHeight, RInt(cy)), RMul(RInt(scale), z)), off[2])>>

(* zoom + delta * zoom, delta = -0.1 for deltaY > 0 and 0.1 otherwise *)
WheelZoom(z, deltaY) ==
    RAdd(z, RMul(IF deltaY > 0 THEN <<-1, 10>> ELSE <<1, 10>>, z))

(* A wheel handler that does not clamp the new zoom *)
DrawingCanvasWheelUnclamped(z, off, mouseX, mouseY, deltaY) ==
    LET newZoom == WheelZoom(z, deltaY)
    IN  IF newZoom = z THEN <<z, off>> ELSE <<newZoom, off>>

(* A wheel handler that zooms about the centre of the surface *)
DrawingCanvasWheelAboutCentre(z, off, mouseX, mouseY, deltaY) ==
    LET newZoom == RMin(RMax(<<1, 100>>, WheelZoom(z, deltaY)), <<100, 1>>)
    IN  <<newZoom, off>>

(* DrawingCanvas.handleWheel: the new <<zoom, offset>> *)
DrawingCanvasWheel(z, off, mouseX, mouseY, deltaY) ==
    LET newZoom == RMin(RMax(<<1, 100>>, WheelZoom(z, deltaY)), <<100, 1>>)
        world == ToWorldCoords(mouseX, mouseY, z, off)
        newOffsetX == RSub(RDiv(RSub(RInt(mouseX), HalfWidth),
                                RMul(RInt(scale), newZoom)), world[1])
        newOffsetY == RSub(RDiv(RSub(HalfHeight, RInt(mouseY)),
                                RMul(RInt(scale), newZoom)), world[2])
    IN  IF newZoom = z THEN <<z, off>> ELSE <<newZoom, <<newOffsetX, newOffsetY>>>>

(* EnhancedDrawingCanvas.handleWheel: the new <<zoom, offset>> *)
EnhancedWheel(z, off, mouseX, mouseY, deltaY) ==
    LET newZoom == RMin(RMax(<<1, 10>>, WheelZoom(z, deltaY)), <<10, 1>>)
        shrink == RSub(RDiv(RInt(1), z), RDiv(RInt(1), newZoom))
        newOffsetX == RSub(off[1],
                           RMul(RDiv(RSub(RInt(mouseX), HalfWidth), RInt(scale)), shrink))
        newOffsetY == RAdd(off[2],
                           RMul(RDiv(RSub(RInt(mouseY), HalfHeight), RInt(scale)), shrink))
    IN  IF newZoom = z THEN <<z, off>> ELSE <<newZoom, <<newOffsetX, newOffsetY>>>>

HandleWheel(v, z, off, mouseX, mouseY, deltaY) ==
    IF v = "DrawingCanvas"
    THEN DrawingCanvasWheel(z, off, mouseX, mouseY, deltaY)
    ELSE EnhancedWheel(z, off, mouseX, mouseY, deltaY)

(* handleMouseMove while dragging: the new offset *)
DragOffset(z, off, from, to) ==
    LET dx == RDiv(RInt(to[1] - from[1]), RMul(RInt(scale), z))
        dy == RDiv(RInt(to[2] - from[2]), RMul(RInt(scale), z))
    IN  <<RAdd(off[1], dx), RSub(off[2], dy)>>

(* App.handleZoomIn, App.handleZoomOut *)
ZoomInValue(z) == RMin(RMul(z, <<13, 10>>), <<100, 1>>)
ZoomOutValue(z) == RMax(RDiv(z, <<13, 10>>), <<1, 100>>)

(* A reset-view that leaves the offset where it is *)
ResetViewZoomOnly == <<RInt(1), offset>>

(* resetView / handleResetView: the new <<zoom, offset>> *)
ResetViewValue == <<RInt(1), <<RInt(0), RInt(0)>>>>

(* The range that handleWheel clamps the zoom to *)
ZoomRange(v) ==
    IF v = "DrawingCanvas" THEN [least |-> <<1, 100>>, most |-> <<100, 1>>]
    ELSE [least |-> <<1, 10>>, most |-> <<10, 1>>]

(* The zooms at the ends of the two ranges, one and two steps inside     *)
(* them, and the first step beyond the upper end                         *)
ClampZooms ==
    {<<100, 1>>, <<110, 1>>, <<99, 1>>, <<90, 1>>, <<1000, 13>>,
     <<1, 100>>, <<11, 1000>>, <<13, 1000>>,
     <<10, 1>>, <<11, 1>>, <<99, 10>>, <<9, 1>>, <<1, 10>>, <<11, 100>>}

(* What the model can hold of the view *)
SmallFraction(q) == q[2] <= MaxDen /\ Abs(q[1]) <= MaxOffset * q[2]
ViewInBounds(z, off) ==
    /\ (z[2] <= MaxDen /\ z[1] <= MaxDen) \/ z \in ClampZooms
    /\ SmallFraction(off[1]) /\ SmallFraction(off[2])

-----------------------------------------------------------------------------
(* The parents.  src/src/App.jsx memoizes the equation on the six shape    *)
(* parameters; the App of src/unnamed/part_001 (303-401) builds it with    *)
(* useCallback on [params], so any slider gives a new equation.             *)

ShapeParams == {"size", "density", "petals", "style", "complexity", "symmetry"}

ParamNames(v) ==
    IF v = "DrawingCanvas"
    THEN {"speed", "resolution"} \cup ShapeParams
    ELSE {"speed", "resolution", "density", "petals", "size"}

(* Whether a change of params[name] gives the canvas a new equation prop *)
EquationChanges(v, name) ==
    IF v = "DrawingCanvas" THEN name \in ShapeParams ELSE TRUE

(* Whether the points useMemo runs again after a change of params[name] *)
PointsDepend(v, name) == EquationChanges(v, name) \/ name = "resolution"

(* Whether the points useMemo runs again after a change of zoom or offset: *)
(* Enhanced samples the visible window (toWorldCoords is a dependency),    *)
(* DrawingCanvas a static view.                                             *)
PointsDependOnView(v) == v = "EnhancedDrawingCanvas"

-----------------------------------------------------------------------------
(* Initial state: mounted, the mount effects run *)

InitRefs ==
    [progress |-> 0, status |-> "drawing", completion |-> NoTimestamp,
     lastTime |-> 0, spriteAlpha |-> AlphaOne, pathAlpha |-> AlphaOne,
     running |-> TRUE, animation |-> NoFrame, queue |-> {}, drawn |-> FALSE]

(* ------------------------------------------------------------------ *)
(* EquationPlotter: sampling a source function over a domain           *)
(* ------------------------------------------------------------------ *)

(* Samples of the domain that one run visits *)
DomainSteps == 3

(* JavaScript numbers, finite ones in 1/100 *)
Finite(n) == [kind |-> "finite", n |-> n]
NaN == [kind |-> "NaN", n |-> 0]
Infinity == [kind |-> "Infinity", n |-> 1]
NegInfinity == [kind |-> "Infinity", n |-> -1]

IsFinite(v) == v.kind = "finite"

tolerance == 10

(* Math.abs(value) < tolerance: false for NaN, false for +/-Infinity *)
AbsBelowTolerance(v) == IsFinite(v) /\ Abs(v.n) < tolerance

Modes == {"fractal", "1d", "parametric", "implicit"}

SampleValues == {Finite(5), NaN, Infinity, NegInfinity}

(* A point as the fractal equation builds it *)
FractalPoint(x, y) == [x |-> x, y |-> y]

(* What one call of the source function does at one sample: it throws or *)
(* it returns; the shape of what it returns depends on the mode.         *)
Throws == [throws |-> TRUE]

Outcomes(mode) ==
    {Throws} \cup
    IF mode = "fractal"
    THEN {[throws |-> FALSE, value |-> list] :
            list \in {<<>>,
                      <<FractalPoint(Finite(5), Finite(5))>>,
                      <<FractalPoint(NaN, Finite(5))>>,
                      <<FractalPoint(Finite(5), Infinity)>>,
                      <<FractalPoint(Finite(5), Finite(5)),
                        FractalPoint(Finite(7), Finite(7))>>}}
    ELSE IF mode = "1d"
    THEN {[throws |-> FALSE, value |-> y] : y \in SampleValues}
    ELSE IF mode = "parametric"
    THEN {[throws |-> FALSE, defined |-> FALSE, x |-> NaN, y |-> NaN]} \cup
         {[throws |-> FALSE, defined |-> TRUE, x |-> x, y |-> y] :
            x \in {Finite(5), NaN, Infinity}, y \in {Finite(5), NaN, Infinity}}
    ELSE {[throws |-> FALSE, value |-> value] :
            value \in {Finite(5), Finite(700), NaN, Infinity}}

(* The source function over the domain: its outcome at each sample *)
Sources(mode) == [1 .. DomainSteps -> Outcomes(mode)]

(* The i-th abscissa (or grid cell) of the domain; always finite *)
DomainPoint(i, y) == [x |-> Finite(100 * i), y |-> y]

(* What one sample appends, fractal-capable variant (lines 630-665) *)
PlotterAppends(mode, i, o) ==
    IF mode = "fractal" THEN o.value
    ELSE IF mode = "1d"
    THEN IF IsFinite(o.value) THEN <<DomainPoint(i, o.value)>> ELSE <<>>
    ELSE IF mode = "parametric"
    THEN IF o.defined /\ IsFinite(o.x) /\ IsFinite(o.y)
         THEN <<[x |-> o.x, y |-> o.y]>>
         ELSE <<>>
    ELSE IF AbsBelowTolerance(o.value)
         THEN <<DomainPoint(i, Finite(100 * i))>>
         ELSE <<>>

(* What one sample appends, first variant (lines 24-57): no fractal       *)
(* branch; any other mode plots sin over the domain without calling the  *)
(* source.                                                               *)
FirstPlotterAppends(mode, i, o) ==
    IF mode \in {"1d", "parametric", "implicit"}
    THEN PlotterAppends(mode, i, o)
    ELSE <<DomainPoint(i, Finite(0))>>

(* Whether sample i calls the source function at all *)
CallsSource(v, mode) ==
    v = "DrawingCanvas" \/ mode \in {"1d", "parametric", "implicit"}

Appends(v, mode, i, o) ==
    IF v = "DrawingCanvas" THEN PlotterAppends(mode, i, o)
    ELSE FirstPlotterAppends(mode, i, o)

(* The loop inside the one try block: a throw leaves the loop for the     *)
(* catch, which logs and falls through to return points.                 *)
RECURSIVE SampleFrom(_, _, _, _, _)
SampleFrom(v, mode, source, i, acc) ==
    IF i > Len(source) THEN acc
    ELSE IF CallsSource(v, mode) /\ source[i].throws THEN acc
    ELSE SampleFrom(v, mode, source, i + 1, acc \o Appends(v, mode, i, source[i]))

EquationPlotter(v, mode, source) == SampleFrom(v, mode, source, 1, <<>>)

(* ------------------------------------------------------------------ *)
(* points: the memo that materializes the sequence                     *)
(* ------------------------------------------------------------------ *)

(* A point of a fragment that the fractal equation returns *)
DepthPoint(depth) == [x |-> Finite(5), y |-> Finite(5), depth |-> depth]

(* Fragments of one angle: none, one with two petals of one layer and a  *)
(* main point of the next layer, one with a main and a core point        *)
Fragments ==
    {<<>>,
     <<DepthPoint(0), DepthPoint(500), DepthPoint(500), DepthPoint(50)>>,
     <<DepthPoint(0), DepthPoint(1000)>>}

MemoSources(mode) ==
    IF mode = "fractal"
    THEN [1 .. DomainSteps ->
            {Throws} \cup {[throws |-> FALSE, value |-> f] : f \in Fragments}]
    ELSE Sources(mode)

(* A comparator that sorts by depth ascending *)
ByDepthAscending(a, b) == a.depth - b.depth

(* (a, b) => b.depth - a.depth *)
ByDepthDescending(a, b) == b.depth - a.depth

(* One step of a stable sort: the element goes behind every element that *)
(* the comparator does not put after it                                  *)
InsertSorted(sorted, e) ==
    LET after == {k \in 1 .. Len(sorted) : ByDepthDescending(sorted[k].point, e.point) > 0}
        at == Len(sorted) - Cardinality(after)
    IN  SubSeq(sorted, 1, at) \o <<e>> \o SubSeq(sorted, at + 1, Len(sorted))

(* Array.prototype.sort(compare), which is stable *)
SortByDepth(seq) ==
    LET placed[n \in 0 .. Len(seq)] ==
            IF n = 0 THEN <<>> ELSE InsertSorted(placed[n - 1], seq[n])
    IN  placed[Len(seq)]

(* The memo: EquationPlotter, then the sort in fractal mode. Each point  *)
(* is paired with its place in what EquationPlotter returned (history).  *)
PointsMemo(v, mode, source) ==
    LET generatedPoints == EquationPlotter(v, mode, source)
        paired == [i \in 1 .. Len(generatedPoints) |->
                     [point |-> generatedPoints[i], order |-> i]]
    IN  IF v = "DrawingCanvas" /\ mode = "fractal" THEN SortByDepth(paired)
        ELSE paired

(* ------------------------------------------------------------------ *)
(* pathSegments: colouring runs of the sequence                        *)
(* ------------------------------------------------------------------ *)

(* Draws that one stream of the generator holds *)
MaxDraws == 3

(* The longest sequence that is segmented *)
SegmentedLength == 450

(* mulberry32(seed)(): a float in [0, 1), here in 1/RandOne *)
RandOne == 1000

RandValues == {0, 3, RandOne - 1}

(* mulberry32(seed): the stream of draws of one instance, fixed by the   *)
(* seed                                                                  *)
Streams == [1 .. MaxDraws -> RandValues]

(* Math.floor(rand() * 400 + 200) *)
RunLength(rand) == (rand * 400 + 200 * RandOne) \div RandOne

colors ==
    <<"255, 165, 0", "220, 20, 60", "255, 215, 0", "139, 0, 139", "0, 191, 255",
      "50, 205, 50">>

(* The lengths of the sequences that are segmented *)
SegmentedLengths == {1, 200, 201, 401, SegmentedLength}

(* A sequence of n points, each its own value *)
PointsOfLength(n) == [i \in 1 .. n |-> i]

(* for (const point of points) { ... }, from the i-th point on, one run  *)
(* of the loop at a time: the points pushed until pointsUntilChange      *)
(* reaches 0 (at least one, as the test follows the push), then the      *)
(* segment is pushed and the next colour and run length are taken. The   *)
(* k-th draw of the stream gave the current run length.                  *)
RECURSIVE SegmentLoop(_, _, _, _, _, _)
SegmentLoop(pts, i, stream, k, colorIndex, segments) ==
    LET pointsUntilChange == RunLength(stream[k])
        run == IF pointsUntilChange > 1 THEN pointsUntilChange ELSE 1
        remaining == Len(pts) - i + 1
        color == colors[colorIndex + 1]
    IN  IF remaining < run
        THEN [segments |-> segments,
              currentSegment |-> [color |-> color,
                                  points |-> SubSeq(pts, i, Len(pts))]]
        ELSE SegmentLoop(pts, i + run, stream, k + 1,
                         (colorIndex + 1) % Len(colors),
                         Append(segments,
                                [color |-> color,
                                 points |-> SubSeq(pts, i, i + run - 1)]))

(* pathSegments that forgets the run in progress when the loop ends *)
PathSegmentsWithoutLastRun(mode, pts, stream) ==
    IF Len(pts) = 0 THEN <<>>
    ELSE IF mode # "fractal" THEN <<[color |-> "52, 152, 219", points |-> pts]>>
    ELSE SegmentLoop(pts, 1, stream, 1, 0, <<>>).segments

PathSegments(mode, pts, stream) ==
    IF Len(pts) = 0 THEN <<>>
    ELSE IF mode # "fractal" THEN <<[color |-> "52, 152, 219", points |-> pts]>>
    ELSE LET end == SegmentLoop(pts, 1, stream, 1, 0, <<>>)
         IN  IF Len(end.currentSegment.points) > 0
             THEN Append(end.segments, end.currentSegment)
             ELSE end.segments

(* ------------------------------------------------------------------ *)
(* finalPookalam: composing the points of one angle                    *)
(* ------------------------------------------------------------------ *)
(* Lengths are in 1/100, factors and angles in 1/1000. The basis         *)
(* functions oscillate; the model evaluates each at one of the two       *)
(* extremes of its oscillating part, the same one at every site of a     *)
(* call.                                                                 *)

(* Calls that are made of one composed function *)
MaxCalls == 2

(* Draws that the stream of one seed holds *)
ComposeDraws == 4

ComposeRandValues == {0, RandOne - 1}

ComposeStreams == [1 .. ComposeDraws -> ComposeRandValues]

PerMille(a, b) == (a * b) \div 1000

Least(a, b) == IF a < b THEN a ELSE b

Greatest(a, b) == IF a > b THEN a ELSE b

patternTypes == <<"fibonacci", "dragon", "koch", "mandelbrot", "fern">>

(* The angles that are composed: t = 0 and t = -6, each at an extreme *)
Angles == {[t |-> t, phase |-> phase] : t \in {0, -6000}, phase \in {"trough", "crest"}}

(* 1 + Math.log(1 + t / (2 * Math.PI)) * PHI_INV *)
FibScale(t) == IF t = 0 THEN 1000 ELSE -916

(* Math.exp(-t * 0.5) * |Math.sin(t * 2)| at its largest over the frequencies *)
FernEnvelope(t) == IF t = 0 THEN 1000 ELSE 10778

(* The oscillating part of a basis function, at the extreme of the phase *)
Wave(pattern, angle) ==
    LET extreme == IF pattern = "koch" THEN 1481
                   ELSE IF pattern = "fern" THEN FernEnvelope(angle.t)
                   ELSE 1000
    IN  IF angle.phase = "crest" THEN extreme ELSE -extreme

(* fractalPatterns[pattern](t, scale, freq, amplitude) *)
FractalPattern(pattern, angle, patternScale, amplitude) ==
    LET swing == 1000 + PerMille(amplitude, Wave(pattern, angle))
    IN  IF pattern = "fibonacci"
        THEN PerMille(PerMille(patternScale, FibScale(angle.t)), swing)
        ELSE PerMille(patternScale, swing)

(* Math.sin(layerProgress * Math.PI) *)
SinPi(layerProgress) ==
    LET x == IF layerProgress > 500 THEN 1000 - layerProgress ELSE layerProgress
    IN  IF x < 50 THEN 0
        ELSE IF x < 106 THEN 309
        ELSE IF x < 156 THEN 342
        ELSE IF x < 211 THEN 588
        ELSE IF x < 236 THEN 643
        ELSE IF x < 275 THEN 707
        ELSE IF x < 317 THEN 809
        ELSE IF x < 367 THEN 866
        ELSE IF x < 422 THEN 951
        ELSE IF x < 472 THEN 985
        ELSE 1000

(* The j-th draw that a call shares with the calls before it *)
DrawShared(stream, call, j) == stream[((3 * (call - 1) + j - 1) % Len(stream)) + 1]

(* The j-th rand() of a call: rand is mulberry32(style + 54321), made    *)
(* anew inside the call                                                  *)
Draw(stream, call, j) == stream[j]

PatternOf(rand) == patternTypes[(rand * Len(patternTypes)) \div RandOne + 1]

(* Math.sqrt(x*x + y*y) of the main point or the core point of radius r *)
Distance(r) == Abs(r)

(* Math.floor of a number in 1/1000 *)
Floor(x) == x \div 1000

(* Math.max(3, Math.floor(params.density * 10)) *)
NumLayers(params) == Greatest(3, Floor(params.density * 10))

(* A petal count that is floored but has no minimum *)
MainPetalsUnclamped(params) == Floor(params.petals)

(* Math.max(4, Math.floor(params.petals)) *)
MainPetals(params) == Greatest(4, Floor(params.petals))

(* A petal depth without the offset of its layer kind *)
PetalsDepthFlat(layerIdx) == layerIdx * 50

(* depth of the main point, the petal points and the core point of a     *)
(* layer                                                                 *)
MainDepth(layerIdx) == layerIdx * 50

PetalsDepth(layerIdx) == layerIdx * 50 + 500

CoreDepth(layerIdx) == layerIdx * 50 + 1000

(* The points of one layer; layerIdx on a point is history, the code's   *)
(* points carry only layer and depth                                     *)
LayerPoints(params, angle, primaryPattern, secondaryPattern, numLayers, layerIdx) ==
    LET baseRadius == params.size
        complexityFactor == IF params.complexity = 0 THEN 700 ELSE params.complexity
        mainPetals == MainPetals(params)
        layerProgress == (layerIdx * 1000) \div (numLayers - 1)
        radiusScale == 1000 - PerMille(layerProgress, 900)
        currentRadius == PerMille(baseRadius, radiusScale)
        patternBlend == SinPi(layerProgress)
        primaryWeight == patternBlend
        secondaryWeight == 1000 - patternBlend
        amplitude == PerMille(50 + PerMille(complexityFactor, 150),
                              1000 + SinPi(layerProgress))
        r1 == FractalPattern(primaryPattern, angle, currentRadius, amplitude)
        r2 == FractalPattern(secondaryPattern, angle, currentRadius,
                             PerMille(amplitude, 600))
        r_main == Least(PerMille(r1, primaryWeight) + PerMille(r2, secondaryWeight),
                        currentRadius)
        main == <<[layer |-> "main", layerIdx |-> layerIdx, depth |-> MainDepth(layerIdx),
                   distance |-> Distance(r_main)]>>
        petalRadius == PerMille(currentRadius, 400 + PerMille(complexityFactor, 300))
        numDetailPetals == PerMille(mainPetals, 500 + PerMille(complexityFactor, 500))
        petalCenterRadius == PerMille(currentRadius, 600)
        r_petal == FractalPattern(secondaryPattern, angle, PerMille(petalRadius, 400),
                                  PerMille(amplitude, 1500))
        distanceFromOrigin == Abs(petalCenterRadius + r_petal)
        petal == [layer |-> "petals", layerIdx |-> layerIdx,
                  depth |-> PetalsDepth(layerIdx),
                  distance |-> IF distanceFromOrigin > baseRadius THEN baseRadius
                               ELSE distanceFromOrigin]
        petals == IF complexityFactor > 400
                  THEN [petalIdx \in 1 .. numDetailPetals |-> petal]
                  ELSE <<>>
        coreRadius == PerMille(currentRadius, 250)
        coreAmplitude == PerMille(amplitude, 2000 - layerProgress)
        Harmonic(harmonic) ==
            FractalPattern(primaryPattern, angle, coreRadius \div (harmonic * 2),
                           coreAmplitude \div harmonic)
            - coreRadius \div (harmonic * 2)
        r_core_base == coreRadius + Harmonic(1) + Harmonic(2) + Harmonic(3)
        r_core == Least(r_core_base, coreRadius)
        core == IF layerIdx * 1000 >= numLayers * 600
                THEN <<[layer |-> "core", layerIdx |-> layerIdx,
                        depth |-> CoreDepth(layerIdx),
                        distance |-> Distance(r_core)]>>
                ELSE <<>>
    IN  main \o petals \o core

(* finalPookalam(params)(t), as the call-th call, with the stream that   *)
(* the seed params.style + 54321 gives                                   *)
Compose(params, stream, call, angle) ==
    LET symmetryFactor == IF params.symmetry = 0 THEN 1000 ELSE params.symmetry
        numLayers == NumLayers(params)
        primaryPattern == PatternOf(Draw(stream, call, 1))
        secondaryPattern == PatternOf(Draw(stream, call, 2))
        asymmetryOffset ==
            PerMille(PerMille(1000 - symmetryFactor, Draw(stream, call, 3) - 500), 300)
        layers[layerIdx \in 0 .. numLayers] ==
            IF layerIdx = 0 THEN <<>>
            ELSE layers[layerIdx - 1] \o
                 LayerPoints(params, angle, primaryPattern, secondaryPattern,
                             numLayers, layerIdx - 1)
    IN  [angle |-> angle, numLayers |-> numLayers, mainPetals |-> MainPetals(params),
         primaryPattern |-> primaryPattern, secondaryPattern |-> secondaryPattern,
         asymmetryOffset |-> asymmetryOffset, points |-> layers[numLayers]]

(* GenerationParameters: size in 1/100, style an integer, the others in *)
(* 1/1000                                                                *)
GenerationParameters ==
    [size : {10000}, density : {300, 1000, 1100}, petals : {-1000, 0, 2000, 10000},
     style : {1}, complexity : {0, 400, 700}, symmetry : {500}]

(* Nothing of the generation pipeline is under way *)
NoPlot ==
    [variant |-> "none", mode |-> "none", source |-> <<>>, points |-> <<>>,
     returned |-> FALSE]

NoSegmenting ==
    [mode |-> "none", points |-> <<>>, stream |-> <<>>, segments |-> <<>>,
     returned |-> FALSE]

IdlePlot == plot = NoPlot

IdleSegmenting == segmenting = NoSegmenting

NoPookalam == [params |-> <<>>, stream |-> <<>>, calls |-> <<>>]

IdlePookalam == pookalam = NoPookalam

IdleGeneration == IdlePlot /\ IdleSegmenting /\ IdlePookalam

MountedWithZoom(z) ==
    /\ variant \in Variants
    /\ now = 0
    /\ \E n \in PointCounts, lag \in Lags :
         /\ points = Regenerated(n)
         /\ LET r == Effects(variant, InitRefs, points, 2, lag, TRUE, TRUE)
            IN  /\ progressRef = r.progress
                /\ statusRef = r.status
                /\ completionTimestampRef = r.completion
                /\ lastTimeRef = r.lastTime
                /\ spriteAlphaRef = r.spriteAlpha
                /\ pathAlphaRef = r.pathAlpha
                /\ runningRef = r.running
                /\ animationRef = r.animation
                /\ rafQueue = r.queue
    /\ speed = 2
    /\ zoom = z
    /\ offset = <<RInt(0), RInt(0)>>
    /\ isDragging = FALSE
    /\ lastMousePos = <<0, 0>>
    /\ showGridState = TRUE
    /\ showLabelsState = TRUE
    /\ last = [op |-> "mount", input |-> "none", regen |-> TRUE,
               from |-> "drawing", moved |-> FALSE, drew |-> FALSE,
               resumed |-> FALSE, expired |-> FALSE]

Mounted == MountedWithZoom(RInt(1))

Init == Mounted /\ IdleGeneration

-----------------------------------------------------------------------------
(* Operations.  last records the operation: its name, the kind of input it *)
(* changed, whether the points useMemo ran again, the phase it began in,   *)
(* whether the view was away from zoom 1, offset (0, 0) when it began,     *)
(* whether drawScene ran, whether it is a play that found the animation    *)
(* paused or the first frame after such a play, and whether the duration   *)
(* of the phase had passed when it began.                                  *)

PhaseExpired ==
    /\ completionTimestampRef # NoTimestamp
    /\ \/ statusRef = "holding" /\ now - completionTimestampRef > holdDuration
       \/ statusRef = "fading" /\ now - completionTimestampRef >= fadeDuration

Commit(op, input, regen, r, pts, spd) ==
    /\ last.op # "Unmount"
    /\ SetRefs(r)
    /\ points' = pts
    /\ speed' = spd
    /\ last' = [op |-> op, input |-> input, regen |-> regen,
                from |-> statusRef, moved |-> <<zoom, offset>> # ResetViewValue,
                drew |-> r.drawn,
                resumed |-> IF op = "Play" THEN ~runningRef
                            ELSE op = "Tick" /\ last.op = "Play" /\ last.resumed,
                expired |-> PhaseExpired]
    /\ UNCHANGED <<variant, generationVars>>

(* One frame: the browser runs a queued animate callback at now + dt *)
Frame(dt, until) ==
    /\ now + dt <= until
    /\ \E cb \in rafQueue :
         Commit("Tick", "none", FALSE, Animate(Refs, cb, now + dt), points, speed)
    /\ now' = now + dt
    /\ UNCHANGED <<viewVars, showGridState, showLabelsState>>

Tick(dt) == Frame(dt, MaxTime)

(* A play that starts the duration of the phase afresh *)
PlayRestartingDuration ==
    /\ Commit("Play", "none", FALSE,
              [Refs EXCEPT !.running = TRUE,
                           !.completion = IF @ = NoTimestamp THEN @ ELSE now],
              points, speed)
    /\ UNCHANGED <<now, viewVars, showGridState, showLabelsState>>

Play ==
    /\ Commit("Play", "none", FALSE, [Refs EXCEPT !.running = TRUE], points, speed)
    /\ UNCHANGED <<now, viewVars, showGridState, showLabelsState>>

Pause ==
    /\ Commit("Pause", "none", FALSE, [Refs EXCEPT !.running = FALSE], points, speed)
    /\ UNCHANGED <<now, viewVars, showGridState, showLabelsState>>

Reset ==
    /\ Commit("Reset", "none", FALSE, HandleReset(Refs), points, speed)
    /\ UNCHANGED <<now, viewVars, showGridState, showLabelsState>>

(* A slider of the parent changes params[name]; v is the new speed, n the  *)
(* length of the sequence if it is generated again.                         *)
SetParam(name, v, n) ==
    /\ name \in ParamNames(variant)
    /\ IF name = "speed" THEN v # speed ELSE v = speed
    /\ PointsDepend(variant, name) \/ n = points.len
    /\ LET regen == PointsDepend(variant, name)
           pts == IF regen THEN Regenerated(n) ELSE points
           spd == IF name = "speed" /\ variant = "DrawingCanvas" THEN v ELSE speed
       IN  \E lag \in Lags :
             Commit("SetParam", IF name \in ShapeParams THEN "shape" ELSE name, regen,
                    Effects(variant, Refs, pts, spd, PerformanceNow(lag), regen,
                            spd # speed),
                    pts, spd)
    /\ UNCHANGED <<now, viewVars, showGridState, showLabelsState>>

(* Enhanced only: the Controls of the component itself *)
ControlsSetSpeed(v) ==
    /\ variant = "EnhancedDrawingCanvas"
    /\ v # speed
    /\ \E lag \in Lags :
         Commit("ControlsSetSpeed", "speed", FALSE,
                Effects(variant, Refs, points, v, PerformanceNow(lag), FALSE, TRUE),
                points, v)
    /\ UNCHANGED <<now, viewVars, showGridState, showLabelsState>>

ControlsSetMode(n) ==
    /\ variant = "EnhancedDrawingCanvas"
    /\ LET pts == Regenerated(n)
       IN  \E lag \in Lags :
             Commit("ControlsSetMode", "mode", TRUE,
                    Effects(variant, Refs, pts, speed, PerformanceNow(lag), TRUE, TRUE),
                    pts, speed)
    /\ UNCHANGED <<now, viewVars, showGridState, showLabelsState>>

ToggleGrid ==
    /\ variant = "EnhancedDrawingCanvas"
    /\ showGridState' = ~showGridState
    /\ \E lag \in Lags :
         Commit("ToggleGrid", "display", FALSE,
                Effects(variant, Refs, points, speed, PerformanceNow(lag), FALSE, TRUE),
                points, speed)
    /\ UNCHANGED <<now, viewVars, showLabelsState>>

ToggleLabels ==
    /\ variant = "EnhancedDrawingCanvas"
    /\ showLabelsState' = ~showLabelsState
    /\ \E lag \in Lags :
         Commit("ToggleLabels", "display", FALSE,
                Effects(variant, Refs, points, speed, PerformanceNow(lag), FALSE, TRUE),
                points, speed)
    /\ UNCHANGED <<now, viewVars, showGridState>>

(* A render after zoom or offset was set: toCanvasCoords, drawScene and    *)
(* startAnimation are new; in Enhanced the points are sampled again.        *)
ViewChange(op, z, off, n) ==
    /\ ViewInBounds(z, off)
    /\ zoom' = z
    /\ offset' = off
    /\ LET regen == PointsDependOnView(variant)
           pts == IF regen THEN Regenerated(n) ELSE points
       IN  \E lag \in Lags :
             Commit(op, "view", regen,
                    Effects(variant, Refs, pts, speed, PerformanceNow(lag), regen, TRUE),
                    pts, speed)
    /\ UNCHANGED <<now, showGridState, showLabelsState>>

(* A handler that returns without setting state *)
NoChange(op) ==
    /\ Commit(op, "none", FALSE, Refs, points, speed)
    /\ UNCHANGED <<now, zoom, offset, showGridState, showLabelsState>>

MouseDown(p) ==
    /\ isDragging' = TRUE
    /\ lastMousePos' = p
    /\ NoChange("MouseDown")

MouseUp ==
    /\ isDragging' = FALSE
    /\ UNCHANGED lastMousePos
    /\ NoChange("MouseUp")

MouseMove(p, n) ==
    /\ isDragging
    /\ lastMousePos' = p
    /\ UNCHANGED isDragging
    /\ ViewChange("MouseMove", zoom, DragOffset(zoom, offset, lastMousePos, p), n)

Wheel(p, deltaY, n) ==
    LET new == HandleWheel(variant, zoom, offset, p[1], p[2], deltaY)
    IN  /\ UNCHANGED <<isDragging, lastMousePos>>
        /\ IF new[1] = zoom
           THEN NoChange("Wheel")
           ELSE ViewChange("Wheel", new[1], new[2], n)

(* App.jsx only: the zoom buttons set the zoom prop *)
ZoomIn ==
    /\ variant = "DrawingCanvas"
    /\ ZoomInValue(zoom) # zoom
    /\ UNCHANGED <<isDragging, lastMousePos>>
    /\ ViewChange("ZoomIn", ZoomInValue(zoom), offset, 0)

ZoomOut ==
    /\ variant = "DrawingCanvas"
    /\ ZoomOutValue(zoom) # zoom
    /\ UNCHANGED <<isDragging, lastMousePos>>
    /\ ViewChange("ZoomOut", ZoomOutValue(zoom), offset, 0)

(* Enhanced only: the zoom slider of the Controls *)
ControlsSetZoom(z, n) ==
    /\ variant = "EnhancedDrawingCanvas"
    /\ z # zoom
    /\ UNCHANGED <<isDragging, lastMousePos>>
    /\ ViewChange("ControlsSetZoom", z, offset, n)

ResetView(n) ==
    /\ UNCHANGED <<isDragging, lastMousePos>>
    /\ ViewChange("ResetView", ResetViewValue[1], ResetViewValue[2], n)

-----------------------------------------------------------------------------
(* Spec: the animation state machine under every transport and parameter   *)
(* operation, the view left alone.                                          *)

Next ==
    \/ \E dt \in FrameDeltas : Tick(dt)
    \/ Play
    \/ Pause
    \/ Reset
    \/ \E name \in ParamNames(variant), v \in Speeds, n \in PointCounts :
         SetParam(name, v, n)
    \/ \E v \in Speeds : ControlsSetSpeed(v)
    \/ \E n \in PointCounts : ControlsSetMode(n)
    \/ ToggleGrid
    \/ ToggleLabels

Spec == Init /\ [][Next]_vars

(* ViewSpec: the view operations with frames of one length between them *)

ViewMaxTime == 500
ViewFrameDeltas == {500}
ViewPointCounts == {LongSequence}

ViewTick(dt) == Frame(dt, ViewMaxTime)

ViewInit == Init /\ points.len \in ViewPointCounts

ViewNext ==
    \/ \E dt \in ViewFrameDeltas : ViewTick(dt)
    \/ \E p \in MousePoints : MouseDown(p)
    \/ MouseUp
    \/ \E p \in MousePoints, n \in ViewPointCounts : MouseMove(p, n)
    \/ \E p \in MousePoints, deltaY \in {-1, 1}, n \in ViewPointCounts : Wheel(p, deltaY, n)
    \/ ZoomIn
    \/ ZoomOut
    \/ \E z \in SliderZooms, n \in ViewPointCounts : ControlsSetZoom(z, n)
    \/ \E n \in ViewPointCounts : ResetView(n)

ViewSpec == ViewInit /\ [][ViewNext]_vars

(* ClampSpec: the zoom operations from the ends of the zoom range, which *)
(* the zoom reaches from 1 after 18 presses of the zoom-in button (49    *)
(* wheel events; 25 in Enhanced) and the steps back                      *)

ClampStarts == {RInt(1), <<100, 1>>, <<1, 100>>, <<10, 1>>, <<1, 10>>}

ClampInit ==
    /\ \E z \in ClampStarts : MountedWithZoom(z)
    /\ RLt(zoom, ZoomRange(variant).least) = FALSE
    /\ RLt(ZoomRange(variant).most, zoom) = FALSE
    /\ IdleGeneration
    /\ points.len \in ViewPointCounts

ClampNext ==
    \/ \E p \in MousePoints, deltaY \in {-1, 1}, n \in ViewPointCounts : Wheel(p, deltaY, n)
    \/ ZoomIn
    \/ ZoomOut
    \/ \E z \in SliderZooms, n \in ViewPointCounts : ControlsSetZoom(z, n)
    \/ \E n \in ViewPointCounts : ResetView(n)

ClampSpec == ClampInit /\ [][ClampNext]_vars

(* LiveSpec: the frames keep coming (the callback requests itself again at *)
(* the end of every run), nobody pauses, and the clock runs to LiveMaxTime. *)

LiveMaxTime == 13500
Horizon == 3500

LiveTick(dt) == Frame(dt, LiveMaxTime)

LiveNext ==
    \/ \E dt \in FrameDeltas : LiveTick(dt)
    \/ Play
    \/ Reset

LiveSpec ==
    /\ Init
    /\ [][LiveNext]_vars
    /\ WF_vars(\E dt \in FrameDeltas : LiveTick(dt))

(* ------------------------------------------------------------------ *)
(* LoopSpec: the frame loop under the operations that restart it, up   *)
(* to the teardown of the component                                    *)
(* ------------------------------------------------------------------ *)

LoopMaxTime == 1000

(* The cleanup of the effect on [startAnimation], run when the component *)
(* is removed; nothing of the component runs after it.                   *)
Unmount ==
    /\ Commit("Unmount", "none", FALSE, CancelPending(Refs), points, speed)
    /\ UNCHANGED <<now, viewVars, showGridState, showLabelsState>>

LoopTick(dt) == Frame(dt, LoopMaxTime)

LoopInit == Init /\ points.len \in ViewPointCounts

LoopNext ==
    \/ \E dt \in ViewFrameDeltas : LoopTick(dt)
    \/ Pause
    \/ Play
    \/ \E name \in ParamNames(variant), v \in Speeds, n \in ViewPointCounts :
         SetParam(name, v, n)
    \/ \E v \in Speeds : ControlsSetSpeed(v)
    \/ ZoomIn
    \/ \E z \in SliderZooms, n \in ViewPointCounts : ControlsSetZoom(z, n)
    \/ \E n \in ViewPointCounts : ResetView(n)
    \/ Unmount

LoopSpec == LoopInit /\ [][LoopNext]_vars

(* ------------------------------------------------------------------ *)
(* One run of EquationPlotter on an arbitrary source function          *)
(* ------------------------------------------------------------------ *)

(* The canvas, mounted on the empty sequence and left alone *)
QuietCanvas ==
    /\ Mounted
    /\ variant = "DrawingCanvas"
    /\ points.len = 0
    /\ lastTimeRef = 0

SamplerInit ==
    /\ QuietCanvas
    /\ IdleSegmenting
    /\ IdlePookalam
    /\ \E v \in Variants, mode \in Modes :
         \E source \in Sources(mode) :
            plot = [variant |-> v, mode |-> mode, source |-> source,
                    points |-> <<>>, returned |-> FALSE]

Sample ==
    /\ plot.mode \in Modes
    /\ ~plot.returned
    /\ plot' = [plot EXCEPT
                  !.points = EquationPlotter(plot.variant, plot.mode, plot.source),
                  !.returned = TRUE]
    /\ UNCHANGED <<canvasVars, segmenting, pookalam>>

SamplerNext == Sample

SamplerSpec == SamplerInit /\ [][SamplerNext]_vars

(* ------------------------------------------------------------------ *)
(* One evaluation of the points memo on an arbitrary source function   *)
(* ------------------------------------------------------------------ *)

MemoInit ==
    /\ QuietCanvas
    /\ IdleSegmenting
    /\ IdlePookalam
    /\ \E v \in Variants, mode \in Modes :
         \E source \in MemoSources(mode) :
            plot = [variant |-> v, mode |-> mode, source |-> source,
                    generated |-> <<>>, points |-> <<>>, order |-> <<>>,
                    returned |-> FALSE]

Materialize ==
    /\ plot.mode \in Modes
    /\ ~plot.returned
    /\ LET memo == PointsMemo(plot.variant, plot.mode, plot.source)
       IN  plot' = [plot EXCEPT
                      !.generated = EquationPlotter(plot.variant, plot.mode, plot.source),
                      !.points = [k \in 1 .. Len(memo) |-> memo[k].point],
                      !.order = [k \in 1 .. Len(memo) |-> memo[k].order],
                      !.returned = TRUE]
    /\ UNCHANGED <<canvasVars, segmenting, pookalam>>

MemoNext == Materialize

MemoSpec == MemoInit /\ [][MemoNext]_vars

(* ------------------------------------------------------------------ *)
(* One run of pathSegments on an arbitrary sequence and stream         *)
(* ------------------------------------------------------------------ *)

SegmenterInit ==
    /\ QuietCanvas
    /\ IdlePlot
    /\ IdlePookalam
    /\ \E mode \in Modes, n \in SegmentedLengths, stream \in Streams :
         segmenting = [mode |-> mode, points |-> PointsOfLength(n),
                       stream |-> stream, segments |-> <<>>, returned |-> FALSE]

Segment ==
    /\ segmenting.mode \in Modes
    /\ ~segmenting.returned
    /\ segmenting' =
         [segmenting EXCEPT
            !.segments = PathSegments(segmenting.mode, segmenting.points,
                                      segmenting.stream),
            !.returned = TRUE]
    /\ UNCHANGED <<canvasVars, plot, pookalam>>

SegmenterNext == Segment

SegmenterSpec == SegmenterInit /\ [][SegmenterNext]_vars

(* ------------------------------------------------------------------ *)
(* Calls of one finalPookalam(params)                                  *)
(* ------------------------------------------------------------------ *)

ComposerInit ==
    /\ QuietCanvas
    /\ IdlePlot
    /\ IdleSegmenting
    /\ \E params \in GenerationParameters, stream \in ComposeStreams :
         pookalam = [params |-> params, stream |-> stream, calls |-> <<>>]

ComposeCall(angle) ==
    /\ pookalam.params \in GenerationParameters
    /\ Len(pookalam.calls) < MaxCalls
    /\ pookalam' =
         [pookalam EXCEPT
            !.calls = Append(@, Compose(pookalam.params, pookalam.stream,
                                        Len(pookalam.calls) + 1, angle))]
    /\ UNCHANGED <<canvasVars, plot, segmenting>>

ComposerNext == \E angle \in Angles : ComposeCall(angle)

ComposerSpec == ComposerInit /\ [][ComposerNext]_vars

-----------------------------------------------------------------------------
(* Properties *)

(* C1: in every reachable state with a non-empty sequence, after any       *)
(* interleaving of ticks, play, pause, reset and sequence replacement,     *)
(* 0 <= progress <= len(sequence) - 1.                                      *)
ProgressInRange ==
    points.len > 0 => (0 <= progressRef /\ progressRef <= LastIndex(points))

(* C6: a tick taken while the phase is drawing and running is true never   *)
(* lowers progress, and progress never exceeds len(sequence) - 1.          *)
MonotonicProgress ==
    [][(last'.op = "Tick" /\ statusRef = "drawing" /\ runningRef /\ points.len > 0)
          => (progressRef' >= progressRef /\ progressRef' <= LastIndex(points))]_vars

(* C2: for a non-empty sequence, running, with frames that keep firing at  *)
(* increasing timestamps, from any phase the machine reaches phase drawing *)
(* with progress 0 again (here: from every state up to Horizon).           *)
PhaseTotality ==
    (points.len > 0 /\ now <= Horizon) ~> (statusRef = "drawing" /\ progressRef = 0)

(* A fade ran to its end and the tick reset the animation *)
PhaseTotalityWitness ==
    /\ last.op = "Tick" /\ last.from = "fading"
    /\ statusRef = "drawing" /\ progressRef = 0
    /\ points.len > 0

(* C3: an explicit reset, in any phase and at any progress or alpha, gives *)
(* progress 0, both alphas 1, phase drawing and a cleared phase-entry      *)
(* timestamp; a second reset right after it changes nothing.               *)
ExplicitReset ==
    last.op = "Reset" =>
        /\ progressRef = 0
        /\ spriteAlphaRef = AlphaOne /\ pathAlphaRef = AlphaOne
        /\ statusRef = "drawing"
        /\ completionTimestampRef = NoTimestamp
        /\ HandleReset(Refs) = Refs

(* A reset pressed during the fade, the alphas already below 1 *)
ExplicitResetWitness ==
    /\ last.op = "Reset" /\ last.from = "fading"
    /\ points.len > 0

(* C4: while running is false, a tick leaves progress, phase, the          *)
(* phase-entry timestamp and both alphas unchanged, redraws the frame and  *)
(* schedules the next tick.                                                 *)
PausedTickFrozen ==
    [][(last'.op = "Tick" /\ ~runningRef) =>
          /\ UNCHANGED <<progressRef, statusRef, completionTimestampRef,
                         spriteAlphaRef, pathAlphaRef>>
          /\ last'.drew
          /\ \E cb \in rafQueue' : cb.id = animationRef']_vars

(* A paused tick in the middle of the drawing phase *)
PausedTickWitness ==
    /\ last.op = "Tick" /\ ~runningRef /\ last.drew
    /\ statusRef = "drawing" /\ progressRef > 0
    /\ progressRef < LastIndex(points)

(* C5: when the PointSequence is replaced the animation is reset to        *)
(* progress 0, alphas 1, phase drawing before any tick reads the new       *)
(* sequence: every pending frame callback holds the current sequence.      *)
ReplacementResets ==
    /\ last.regen =>
          /\ progressRef = 0
          /\ spriteAlphaRef = AlphaOne /\ pathAlphaRef = AlphaOne
          /\ statusRef = "drawing"
    /\ \A cb \in rafQueue : cb.pts = points

(* A sequence replaced by one of another length while the old one was held *)
ReplacementWitness ==
    /\ last.regen /\ last.op = "SetParam" /\ last.from = "holding"
    /\ points.len = 1

(* C7: a change of a non-generation input (speed, pan, zoom, grid or label *)
(* toggle) never regenerates the PointSequence and never resets progress   *)
(* or phase.                                                                *)
NonGenerationInputsKeepSequence ==
    [][last'.input \in {"speed", "display", "view"} =>
          /\ ~last'.regen
          /\ UNCHANGED <<points, progressRef, statusRef>>]_vars

(* C8: pan, wheel zoom and reset-view change only zoom and offset: never   *)
(* progress, phase, alphas or running, and the PointSequence is not        *)
(* generated again.                                                         *)
ViewChangesOnlyView ==
    [][last'.op \in {"MouseMove", "Wheel", "ResetView"} =>
          /\ UNCHANGED <<progressRef, statusRef, spriteAlphaRef, pathAlphaRef,
                         runningRef, points>>
          /\ ~last'.regen]_vars

(* C9: for every wheel event that changes zoom, the world coordinate of    *)
(* the cursor's surface point is the same under the old and the new        *)
(* (offset, zoom).                                                          *)
ZoomPivot ==
    [][(last'.op = "Wheel" /\ zoom' # zoom) =>
          \A p \in MousePoints, deltaY \in {-1, 1}, n \in ViewPointCounts :
              Wheel(p, deltaY, n) =>
                  ToWorldCoords(p[1], p[2], zoom', offset')
                      = ToWorldCoords(p[1], p[2], zoom, offset)]_vars

(* A wheel event away from the centre, on the untouched view: the zoom     *)
(* changed and the offset had to follow.                                    *)
ZoomPivotWitness ==
    /\ last.op = "Wheel" /\ ~last.moved
    /\ zoom # RInt(1)
    /\ offset # <<RInt(0), RInt(0)>>

(* C10: reset-view, after any drags, wheel zooms and zoom-button presses,  *)
(* leaves zoom = 1 and offset = (0, 0).                                     *)
ResetViewHome ==
    last.op = "ResetView" => (zoom = RInt(1) /\ offset = <<RInt(0), RInt(0)>>)

(* A reset-view of a view that had been moved *)
ResetViewWitness ==
    last.op = "ResetView" /\ last.moved

(* C11: while the sequence is empty the phase is drawing and progress is  *)
(* 0 in every reachable state, whatever ticks ran (running or paused),   *)
(* every pending frame callback holds the empty sequence, the marker     *)
(* reads no element of it, and segmenting it gives no segment before any *)
(* draw is taken.                                                        *)
EmptySequenceInert ==
    points.len = 0 =>
        /\ statusRef = "drawing"
        /\ progressRef = 0
        /\ \A cb \in rafQueue : cb.pts.len = 0
        /\ SpriteReads(points.len, progressRef) = {}
        /\ \A mode \in Modes : PathSegments(mode, PointsOfLength(points.len), <<>>) = <<>>

(* A tick that ran on the empty sequence while running, late in the run *)
EmptySequenceWitness ==
    /\ points.len = 0
    /\ last.op = "Tick"
    /\ runningRef
    /\ now >= holdDuration + fadeDuration

(* C12: in every mode, every point of the sequence EquationPlotter       *)
(* returns has a finite x and a finite y.                                *)
AllPointsFinite ==
    plot.returned =>
        \A i \in 1 .. Len(plot.points) :
            IsFinite(plot.points[i].x) /\ IsFinite(plot.points[i].y)

(* C13: when the source function throws at a sample, EquationPlotter     *)
(* returns and what it returns is what every sample that did not throw,  *)
(* before and after the failing one, appends, in domain order.           *)
ThrowDropsOnlyFailingSample ==
    plot.returned =>
        LET kept[i \in 0 .. DomainSteps] ==
                IF i = 0 THEN <<>>
                ELSE IF CallsSource(plot.variant, plot.mode) /\ plot.source[i].throws
                     THEN kept[i - 1]
                     ELSE kept[i - 1] \o
                          Appends(plot.variant, plot.mode, i, plot.source[i])
        IN  plot.points = kept[DomainSteps]

(* C14: for a non-empty sequence and any mode, the segments' point lists, *)
(* concatenated in segment order, are exactly the sequence (so every     *)
(* point is in one segment, in order, with its value unchanged), and no  *)
(* segment is empty.                                                     *)
SegmentsPartition ==
    (segmenting.returned /\ Len(segmenting.points) > 0) =>
        LET segments == segmenting.segments
            joined[i \in 0 .. Len(segments)] ==
                IF i = 0 THEN <<>> ELSE joined[i - 1] \o segments[i].points
        IN  /\ joined[Len(segments)] = segmenting.points
            /\ \A i \in 1 .. Len(segments) : Len(segments[i].points) > 0

(* A fractal sequence cut into three runs, the last one unfinished *)
SegmentsPartitionWitness ==
    /\ segmenting.returned
    /\ segmenting.mode = "fractal"
    /\ Len(segmenting.segments) = 3
    /\ Len(segmenting.segments[3].points) < RunLength(segmenting.stream[3])

(* C15: every point that a call of the composed function returns, in the *)
(* main, petals and core layers, is within size of the origin, for every *)
(* parameter set and every angle.                                        *)
PointsWithinSize ==
    \A c \in 1 .. Len(pookalam.calls) :
        \A i \in 1 .. Len(pookalam.calls[c].points) :
            pookalam.calls[c].points[i].distance <= pookalam.params.size

SinglePendingFrame ==
    /\ Cardinality(rafQueue) <= 1
    /\ \A cb \in rafQueue : cb.id = animationRef
    /\ last.op = "Tick" => (last.drew /\ Cardinality(rafQueue) = 1)
    /\ last.op = "Unmount" => rafQueue = {}

(* A teardown after a frame, with the speed and the view changed *)
SinglePendingFrameWitness ==
    /\ last.op = "Unmount"
    /\ last.moved
    /\ speed = 1
    /\ now > 0

(* C18: a tick in phase drawing, running, on a non-empty sequence, with  *)
(* frame delta dt = timestamp - lastTime, adds speed*50*dt/1000 to       *)
(* progress; if the sum is at least len-1 the tick leaves progress =     *)
(* len-1, phase holding and the entry timestamp equal to its own         *)
(* timestamp, otherwise progress is the sum and the phase stays drawing. *)
(* For len = 100, speed = 2, dt = 1000 that gives 99 and holding.        *)
DrawingTickAdvance ==
    [][(last'.op = "Tick" /\ statusRef = "drawing" /\ runningRef /\ points.len > 0) =>
          LET dt == now' - lastTimeRef
              sum == progressRef + (speed * 50 * dt * Scale) \div 1000
              example == DrawingTick([Refs EXCEPT !.progress = 0], [len |-> 100], 2,
                                     now', 1000)
          IN  /\ IF sum >= (points.len - 1) * Scale
                 THEN /\ progressRef' = (points.len - 1) * Scale
                      /\ statusRef' = "holding"
                      /\ completionTimestampRef' = now'
                 ELSE /\ progressRef' = sum
                      /\ statusRef' = "drawing"
                      /\ completionTimestampRef' = completionTimestampRef
              /\ example.progress = 99 * Scale
              /\ example.status = "holding"]_vars

(* A tick that carried a long sequence to its end, after earlier frames *)
DrawingTickAdvanceWitness ==
    /\ last.op = "Tick" /\ last.from = "drawing"
    /\ points.len = LongSequence
    /\ statusRef = "holding"
    /\ progressRef = (points.len - 1) * Scale
    /\ completionTimestampRef = now
    /\ now >= 1000

(* C19 as stated: a tick in phase holding changes neither progress nor   *)
(* the alphas, and it moves the phase to fading, recording its own       *)
(* timestamp, exactly when timestamp - entry timestamp > holdDuration;   *)
(* no tick moves holding to drawing or drawing to fading.                *)
HoldingTickAnyTick ==
    [][last'.op = "Tick" =>
          /\ statusRef = "holding" =>
               /\ progressRef' = progressRef
               /\ progressRef' = (points.len - 1) * Scale
               /\ spriteAlphaRef' = spriteAlphaRef /\ pathAlphaRef' = pathAlphaRef
               /\ IF now' - completionTimestampRef > holdDuration
                  THEN statusRef' = "fading" /\ completionTimestampRef' = now'
                  ELSE /\ statusRef' = "holding"
                       /\ completionTimestampRef' = completionTimestampRef
          /\ ~(statusRef = "holding" /\ statusRef' = "drawing")
          /\ ~(statusRef = "drawing" /\ statusRef' = "fading")]_vars

(* C19, for ticks taken while running: the same, and a tick taken while  *)
(* paused leaves the phase holding however long the hold has lasted.     *)
HoldingTickRunning ==
    [][last'.op = "Tick" =>
          /\ statusRef = "holding" =>
               /\ progressRef' = progressRef
               /\ progressRef' = (points.len - 1) * Scale
               /\ spriteAlphaRef' = spriteAlphaRef /\ pathAlphaRef' = pathAlphaRef
               /\ IF runningRef /\ now' - completionTimestampRef > holdDuration
                  THEN statusRef' = "fading" /\ completionTimestampRef' = now'
                  ELSE /\ statusRef' = "holding"
                       /\ completionTimestampRef' = completionTimestampRef
          /\ ~(statusRef = "holding" /\ statusRef' = "drawing")
          /\ ~(statusRef = "drawing" /\ statusRef' = "fading")]_vars

(* A running tick ended a hold *)
HoldingTickWitness ==
    /\ last.op = "Tick" /\ last.from = "holding"
    /\ statusRef = "fading"
    /\ completionTimestampRef = now
    /\ progressRef = (points.len - 1) * Scale
    /\ points.len = LongSequence

(* C20 as stated: a running tick in phase holding whose timestamp is at  *)
(* least holdDuration after the entry timestamp leaves the phase fading. *)
HoldEndsAtHoldDuration ==
    [][(last'.op = "Tick" /\ statusRef = "holding" /\ runningRef
        /\ now' - completionTimestampRef >= holdDuration)
          => statusRef' = "fading"]_vars

(* C20, with the comparison the tick makes: a running tick in phase      *)
(* holding leaves the phase fading if its timestamp is more than         *)
(* holdDuration after the entry timestamp, whatever ticks came before,   *)
(* and leaves it holding if it is exactly holdDuration after.            *)
HoldEndsAfterHoldDuration ==
    [][(last'.op = "Tick" /\ statusRef = "holding" /\ runningRef) =>
          /\ now' - completionTimestampRef > holdDuration => statusRef' = "fading"
          /\ now' - completionTimestampRef = holdDuration => statusRef' = "holding"]_vars

(* A running tick exactly holdDuration after the hold began left it on *)
HoldEndsWitness ==
    /\ last.op = "Tick" /\ last.from = "holding"
    /\ statusRef = "holding"
    /\ runningRef
    /\ now - completionTimestampRef = holdDuration

(* C21 as stated: every tick in phase fading sets both alphas to         *)
(* max(0, 1 - (timestamp - entry timestamp)/fadeDuration); when that is  *)
(* <= 0 the tick leaves progress 0, both alphas 1 and phase drawing,     *)
(* otherwise the phase stays fading and progress is unchanged.           *)
FadingTickAnyTick ==
    [][(last'.op = "Tick" /\ statusRef = "fading") =>
          LET elapsedFade == now' - completionTimestampRef
              alpha == IF fadeDuration - elapsedFade > 0
                       THEN fadeDuration - elapsedFade ELSE 0
          IN  IF alpha <= 0
              THEN /\ progressRef' = 0
                   /\ spriteAlphaRef' = AlphaOne /\ pathAlphaRef' = AlphaOne
                   /\ statusRef' = "drawing"
              ELSE /\ spriteAlphaRef' = alpha /\ pathAlphaRef' = alpha
                   /\ statusRef' = "fading"
                   /\ progressRef' = progressRef]_vars

(* C21, for ticks taken while running: the same; a tick taken while      *)
(* paused leaves the alphas, the phase and progress as they were. A fade *)
(* of exactly fadeDuration (2000 ms of 2000 ms) ends in the full reset.  *)
FadingTickRunning ==
    [][(last'.op = "Tick" /\ statusRef = "fading") =>
          LET elapsedFade == now' - completionTimestampRef
              alpha == IF fadeDuration - elapsedFade > 0
                       THEN fadeDuration - elapsedFade ELSE 0
              example == FadingTick([Refs EXCEPT !.completion = now], now + fadeDuration)
          IN  /\ IF ~runningRef
                 THEN /\ spriteAlphaRef' = spriteAlphaRef /\ pathAlphaRef' = pathAlphaRef
                      /\ statusRef' = "fading"
                      /\ progressRef' = progressRef
                 ELSE IF alpha <= 0
                 THEN /\ progressRef' = 0
                      /\ spriteAlphaRef' = AlphaOne /\ pathAlphaRef' = AlphaOne
                      /\ statusRef' = "drawing"
                 ELSE /\ spriteAlphaRef' = alpha /\ pathAlphaRef' = alpha
                      /\ statusRef' = "fading"
                      /\ progressRef' = progressRef
              /\ example.status = "drawing" /\ example.progress = 0
              /\ example.spriteAlpha = AlphaOne /\ example.pathAlpha = AlphaOne]_vars

(* A running tick part of the way through a fade *)
FadingTickWitness ==
    /\ last.op = "Tick" /\ last.from = "fading"
    /\ statusRef = "fading"
    /\ runningRef
    /\ spriteAlphaRef > 0 /\ spriteAlphaRef < AlphaOne
    /\ spriteAlphaRef = fadeDuration - (now - completionTimestampRef)

(* C22: every call uses L = max(3, floor(density*10)) layers and         *)
(* P = max(4, floor(petals)) petals; its fragment holds exactly L main   *)
(* points, one for each layer index 0..L-1; density 0.3 gives 3 layers   *)
(* and petals 2, 0 or -1 give P = 4.                                     *)
LayerAndPetalCounts ==
    \A c \in 1 .. Len(pookalam.calls) :
        LET call == pookalam.calls[c]
            params == pookalam.params
            tenfold == (params.density * 10) \div 1000
            L == IF tenfold > 3 THEN tenfold ELSE 3
            whole == params.petals \div 1000
            P == IF whole > 4 THEN whole ELSE 4
            main == {i \in 1 .. Len(call.points) : call.points[i].layer = "main"}
        IN  /\ call.numLayers = L
            /\ call.mainPetals = P
            /\ Cardinality(main) = L
            /\ \A layerIdx \in 0 .. L - 1 :
                 Cardinality({i \in main : call.points[i].depth = layerIdx * 50}) = 1
            /\ params.density = 300 => Cardinality(main) = 3
            /\ params.petals \in {-1000, 0, 2000} => call.mainPetals = 4

(* A call with petals = 2 and density = 0.3 *)
LayerAndPetalCountsWitness ==
    /\ Len(pookalam.calls) > 0
    /\ pookalam.params.petals = 2000
    /\ pookalam.params.density = 300
    /\ pookalam.calls[1].mainPetals = 4
    /\ pookalam.calls[1].numLayers = 3

(* C23: a call emits points of layer petals exactly when complexity >    *)
(* 0.4; for every complexity in 0..0.4, 0 included, it emits none.       *)
PetalsOnlyAboveThreshold ==
    \A c \in 1 .. Len(pookalam.calls) :
        LET call == pookalam.calls[c]
            petals == {i \in 1 .. Len(call.points) : call.points[i].layer = "petals"}
        IN  (petals # {}) <=> (pookalam.params.complexity > 400)

(* Rank of a layer kind in the draw order *)
KindRank(layer) == CASE layer = "main" -> 0 [] layer = "petals" -> 1 [] layer = "core" -> 2

(* The points of one call are in depth order: a point of an earlier kind *)
(* is strictly shallower, and within one kind a point of a lower layer   *)
(* index is strictly shallower                                           *)
DepthOrdered(call) ==
    LET placed == {[layer |-> call.points[i].layer, layerIdx |-> call.points[i].layerIdx,
                    depth |-> call.points[i].depth] : i \in 1 .. Len(call.points)}
    IN  \A p, q \in placed :
            /\ KindRank(p.layer) < KindRank(q.layer) => p.depth < q.depth
            /\ (p.layer = q.layer /\ p.layerIdx < q.layerIdx) => p.depth < q.depth

(* C24, as stated: for any parameters every call's points are in depth   *)
(* order, main below petals below core and increasing with layer index.  *)
DepthOrderAnyParameters ==
    \A c \in 1 .. Len(pookalam.calls) : DepthOrdered(pookalam.calls[c])

(* C24: for a density of at most 1.0, that is at most 10 layers, every   *)
(* call's points are in depth order: every main depth is below every     *)
(* petals depth, every petals depth below every core depth, and within   *)
(* one layer kind depth strictly increases with the layer index.         *)
DepthOrderWithinDensity ==
    pookalam.params.density <= 1000 =>
        \A c \in 1 .. Len(pookalam.calls) : DepthOrdered(pookalam.calls[c])

DepthOrderWitness ==
    /\ pookalam.params.density = 1000
    /\ \E c \in 1 .. Len(pookalam.calls) :
           LET call == pookalam.calls[c]
           IN  /\ call.numLayers = 10
               /\ \A kind \in {"main", "petals", "core"} :
                      \E i \in 1 .. Len(call.points) : call.points[i].layer = kind
               /\ \E i \in 1 .. Len(call.points) :
                      call.points[i].layer = "main" /\ call.points[i].depth = 450

(* What the fractal branch appends: the fragments of the angles before   *)
(* the first throw, in angle order                                       *)
FragmentsInAngleOrder(source) ==
    LET upTo[i \in 0 .. Len(source)] ==
            IF i = 0 THEN <<>>
            ELSE IF \E k \in 1 .. i : source[k].throws THEN upTo[i - 1]
            ELSE upTo[i - 1] \o source[i].value
    IN  upTo[Len(source)]

(* C25: the memo's sequence holds exactly the generated points, each     *)
(* unchanged; in fractal mode the generated points are the fragments in  *)
(* angle order and the sequence is in non-increasing depth with points   *)
(* of equal depth in generation order; in the other modes the sequence   *)
(* is the generated one, in sampling order.                              *)
FractalSortedStable ==
    plot.returned =>
        LET n == Len(plot.generated)
        IN  /\ Len(plot.points) = n
            /\ {plot.order[k] : k \in 1 .. n} = 1 .. n
            /\ \A k \in 1 .. n : plot.points[k] = plot.generated[plot.order[k]]
            /\ IF plot.variant = "DrawingCanvas" /\ plot.mode = "fractal"
               THEN /\ plot.generated = FragmentsInAngleOrder(plot.source)
                    /\ \A i, j \in 1 .. n :
                          i < j =>
                            /\ plot.points[i].depth >= plot.points[j].depth
                            /\ plot.points[i].depth = plot.points[j].depth
                                  => plot.order[i] < plot.order[j]
               ELSE plot.points = plot.generated

FractalSortedStableWitness ==
    /\ plot.returned
    /\ plot.variant = "DrawingCanvas"
    /\ plot.mode = "fractal"
    /\ Len(plot.points) = 8
    /\ \E k \in 1 .. Len(plot.points) : plot.order[k] # k
    /\ \E i, j \in 1 .. Len(plot.points) :
          /\ i < j
          /\ plot.points[i].depth = plot.points[j].depth
          /\ plot.order[j] > plot.order[i] + 1

(* Math.min(Math.max(least, zoom + delta * zoom), most) of the variant *)
ClampedWheelZoom(v, z, deltaY) ==
    RMin(RMax(ZoomRange(v).least, WheelZoom(z, deltaY)), ZoomRange(v).most)

(* C26: under wheel events, the zoom buttons and reset-view the zoom     *)
(* stays within [0.01, 100], and a wheel event whose clamped new zoom is *)
(* the current zoom changes neither zoom nor offset.                     *)
ZoomStaysInRange ==
    [][/\ ~RLt(zoom', <<1, 100>>)
       /\ ~RLt(<<100, 1>>, zoom')
       /\ \A p \in MousePoints, deltaY \in {-1, 1}, n \in ViewPointCounts :
             (Wheel(p, deltaY, n) /\ ClampedWheelZoom(variant, zoom, deltaY) = zoom)
                 => (zoom' = zoom /\ offset' = offset)]_vars

(* A wheel event at the upper end of the range that left the zoomed view *)
(* alone                                                                *)
ZoomStaysInRangeWitness ==
    /\ last.op = "Wheel" /\ last.input = "none"
    /\ zoom = ZoomRange(variant).most
    /\ last.moved

(* C27: in every reachable state spriteAlpha and pathAlpha are equal and *)
(* within [0, 1], and both are 1 whenever the phase is drawing or        *)
(* holding.                                                              *)
AlphasEqualInRange ==
    /\ spriteAlphaRef = pathAlphaRef
    /\ 0 <= spriteAlphaRef /\ spriteAlphaRef <= AlphaOne
    /\ statusRef \in {"drawing", "holding"} => spriteAlphaRef = AlphaOne

(* A fade half way: both alphas lowered to the same value in (0, 1),    *)
(* with the sequence drawn to its end                                    *)
AlphasEqualInRangeWitness ==
    /\ statusRef = "fading"
    /\ spriteAlphaRef = AlphaOne \div 2
    /\ pathAlphaRef = AlphaOne \div 2
    /\ points.len > 0
    /\ progressRef = LastIndex(points)

(* C28: an explicit reset and a change of the sequence leave running     *)
(* true; every other operation but play, speed changes among them,       *)
(* leaves a paused animation paused.                                     *)
RunningSetOnlyByPlayOrReset ==
    [][/\ (last'.op = "Reset" \/ last'.regen) => runningRef'
       /\ (~runningRef /\ runningRef') => (last'.op \in {"Play", "Reset"} \/ last'.regen)]_vars

(* C29: the durations of holding and fading run on during a pause: the   *)
(* first tick after a play that found the animation paused moves from    *)
(* holding to fading if the play came more than holdDuration after       *)
(* holding was entered, and resets from fading if the play came at       *)
(* least fadeDuration after fading was entered.                          *)
DurationsRunDuringPause ==
    [][(last.op = "Play" /\ last.resumed /\ last.expired /\ last'.op = "Tick"
        /\ points.len > 0) =>
          /\ statusRef = "holding"
                => (statusRef' = "fading" /\ completionTimestampRef' = now')
          /\ statusRef = "fading"
                => /\ statusRef' = "drawing" /\ progressRef' = 0
                   /\ spriteAlphaRef' = AlphaOne /\ pathAlphaRef' = AlphaOne
                   /\ completionTimestampRef' = NoTimestamp]_vars

(* The first tick after a play that came later than holdDuration after   *)
(* holding was entered: the phase is fading                              *)
DurationsRunDuringPauseWitness ==
    /\ last.op = "Tick" /\ last.resumed /\ last.expired
    /\ last.from = "holding"
    /\ statusRef = "fading"
    /\ points.len > 0

(* C30: the first tick after a play that found the animation paused adds *)
(* to progress only what the delta of that one frame gives: lastTimeRef  *)
(* is no older than the frame before, whatever the length of the pause.  *)
NoJumpAfterPause ==
    [][(last.op = "Play" /\ last.resumed /\ last'.op = "Tick" /\ points.len > 0
        /\ statusRef = "drawing") =>
          /\ lastTimeRef >= now
          /\ progressRef' = Least(progressRef + ProgressSpeed(speed, now' - lastTimeRef),
                                  LastIndex(points))]_vars

(* The first tick after a play, in drawing, after frames went by paused: *)
(* progress moved by one frame's worth and is still short of the end     *)
NoJumpAfterPauseWitness ==
    /\ last.op = "Tick" /\ last.resumed
    /\ last.from = "drawing" /\ statusRef = "drawing"
    /\ points.len > 1
    /\ progressRef > 0
    /\ now >= 1500
    /\ progressRef < ProgressSpeed(speed, now)

====
